---------------------------- MODULE Spec2Model ----------------------------
(***************************************************************************)
(* The opportunity board of src/app.js: an in-memory list of opportunity   *)
(* records, a category filter, a snapshot of the list in localStorage and  *)
(* the DOM regions rebuilt by render().                                    *)
(*                                                                         *)
(* A JavaScript string is modelled as a sequence of symbols.  A symbol is  *)
(* one character (" ", "<", "&", a digit, ...) or an opaque run of         *)
(* ordinary characters ("a", "Internship", "id").                          *)
(***************************************************************************)
EXTENDS Integers, Sequences, FiniteSets, TLC

(* ------------------------------ bounds --------------------------------- *)

\* The longest list an add may still extend.
MaxLen == 2

\* The last millisecond the clock reaches.
MaxClock == 2

(* ------------------------- the page (inputs) --------------------------- *)

Whitespace == {" ", "\t"}

\* What the user may have typed into the title input before clicking Add.
TitleInputs == { <<>>, <<" ", "\t">>, <<" ", "<", " ", "b", "\t">> }

\* The options of the category selector.
Categories == { <<"Internship">>, <<"Scholarship">> }

\* The data-filter values of the filter buttons.
FilterButtons == { <<"all">> } \cup Categories

\* The ids toggleSavedStatus is called with directly: the one a stored record
\* carries and one that no record carries.
Ids == { 0, MaxClock + 1 }

(* ------------------------------ strings -------------------------------- *)

RECURSIVE TrimStart(_)
TrimStart(s) ==
    IF s # <<>> /\ Head(s) \in Whitespace THEN TrimStart(Tail(s)) ELSE s

RECURSIVE TrimEnd(_)
TrimEnd(s) ==
    IF s # <<>> /\ s[Len(s)] \in Whitespace
    THEN TrimEnd(SubSeq(s, 1, Len(s) - 1))
    ELSE s

\* A title kept as typed: the whitespace around it is not removed.
TrimNothing(s) == s

\* String.prototype.trim
Trim(s) == TrimEnd(TrimStart(s))

EscapeChar(c) ==
    CASE c = "<" -> <<"&", "l", "t", ";">>
      [] c = ">" -> <<"&", "g", "t", ";">>
      [] c = "&" -> <<"&", "a", "m", "p", ";">>
      [] OTHER   -> <<c>>

\* escapeHTML: the innerHTML of a text node holding str.
RECURSIVE escapeHTML(_)
escapeHTML(str) ==
    IF str = <<>> THEN <<>> ELSE EscapeChar(Head(str)) \o escapeHTML(Tail(str))

Digit(d) ==
    CASE d = 0 -> "0" [] d = 1 -> "1" [] d = 2 -> "2" [] d = 3 -> "3"
      [] d = 4 -> "4" [] d = 5 -> "5" [] d = 6 -> "6" [] d = 7 -> "7"
      [] d = 8 -> "8" [] d = 9 -> "9"

DigitValue(c) ==
    CASE c = "0" -> 0 [] c = "1" -> 1 [] c = "2" -> 2 [] c = "3" -> 3
      [] c = "4" -> 4 [] c = "5" -> 5 [] c = "6" -> 6 [] c = "7" -> 7
      [] c = "8" -> 8 [] c = "9" -> 9

\* String(n) for an integer n >= 0: its decimal digits.
RECURSIVE NumberToString(_)
NumberToString(n) ==
    IF n < 10 THEN <<Digit(n)>>
    ELSE NumberToString(n \div 10) \o <<Digit(n % 10)>>

\* parseInt(s, 10) of a string of decimal digits.
RECURSIVE parseInt(_)
parseInt(s) ==
    IF Len(s) = 1 THEN DigitValue(s[1])
    ELSE 10 * parseInt(SubSeq(s, 1, Len(s) - 1)) + DigitValue(s[Len(s)])

(* ---------------------------- JavaScript values ------------------------ *)

\* The values the variable opportunities can hold.
JArray(a) == [t |-> "array", a |-> a]
JNull == [t |-> "null"]
JNumber(n) == [t |-> "number", n |-> n]

IsArray(v) == v.t = "array"

(* ------------------------------- JSON ---------------------------------- *)

\* The tokens of a JSON text.
P(c) == [k |-> "punct", p |-> c]
S(s) == [k |-> "string", s |-> s]
N(n) == [k |-> "number", n |-> n]
L(w) == [k |-> "literal", l |-> w]

IsP(tok, c) == tok.k = "punct" /\ tok.p = c

StringifyBoolean(b) == IF b THEN L("true") ELSE L("false")

\* JSON.stringify of one opportunity: its own properties in creation order.
StringifyObject(op) ==
    << P("{"), S(<<"id">>), P(":"), N(op.id), P(","),
       S(<<"title">>), P(":"), S(op.title), P(","),
       S(<<"category">>), P(":"), S(op.category), P(","),
       S(<<"saved">>), P(":"), StringifyBoolean(op.saved), P("}") >>

\* The elements written last to first.
RECURSIVE StringifyBackwards(_)
StringifyBackwards(a) ==
    IF a = <<>> THEN <<>>
    ELSE IF Len(a) = 1 THEN StringifyObject(a[1])
    ELSE StringifyBackwards(Tail(a)) \o <<P(",")>> \o StringifyObject(a[1])

RECURSIVE StringifyElements(_)
StringifyElements(a) ==
    IF a = <<>> THEN <<>>
    ELSE IF Len(a) = 1 THEN StringifyObject(a[1])
    ELSE StringifyObject(a[1]) \o <<P(",")>> \o StringifyElements(Tail(a))

\* JSON.stringify of the value of opportunities.
Stringify(v) ==
    CASE v.t = "array"  -> <<P("[")>> \o StringifyElements(v.a) \o <<P("]")>>
      [] v.t = "null"   -> <<L("null")>>
      [] v.t = "number" -> <<N(v.n)>>


\* The value of a scalar token.
ScalarValue(tok) ==
    CASE tok.k = "number" -> tok.n
      [] tok.k = "string" -> tok.s
      [] tok.k = "literal" -> (tok.l = "true")

IsScalar(tok) ==
    \/ tok.k \in {"number", "string"}
    \/ tok.k = "literal" /\ tok.l \in {"true", "false"}

NoParse == [ok |-> FALSE, v |-> JNull, next |-> 0]

\* The members of an object from token i on, up to its closing brace.  A
\* repeated key keeps its last value.
RECURSIVE ParseMembers(_, _, _)
ParseMembers(toks, i, obj) ==
    IF i + 3 > Len(toks) THEN NoParse
    ELSE IF ~ ( /\ toks[i].k = "string" /\ Len(toks[i].s) = 1
                /\ IsP(toks[i + 1], ":")
                /\ IsScalar(toks[i + 2]) ) THEN NoParse
    ELSE LET key == toks[i].s[1]
             more == (key :> ScalarValue(toks[i + 2]))
                        @@ [f \in (DOMAIN obj) \ {key} |-> obj[f]]
         IN  IF IsP(toks[i + 3], "}") THEN [ok |-> TRUE, v |-> more, next |-> i + 4]
             ELSE IF IsP(toks[i + 3], ",") THEN ParseMembers(toks, i + 4, more)
             ELSE NoParse

\* An object starting at token i.
ParseObject(toks, i) ==
    IF i + 1 > Len(toks) \/ ~ IsP(toks[i], "{") THEN NoParse
    ELSE IF IsP(toks[i + 1], "}") THEN [ok |-> TRUE, v |-> <<>>, next |-> i + 2]
    ELSE ParseMembers(toks, i + 1, <<>>)

\* The elements of an array from token i on, up to its closing bracket.
RECURSIVE ParseElements(_, _, _)
ParseElements(toks, i, acc) ==
    LET o == ParseObject(toks, i) IN
    IF ~ o.ok \/ o.next > Len(toks) THEN NoParse
    ELSE IF IsP(toks[o.next], "]")
         THEN [ok |-> TRUE, v |-> Append(acc, o.v), next |-> o.next + 1]
    ELSE IF IsP(toks[o.next], ",")
         THEN ParseElements(toks, o.next + 1, Append(acc, o.v))
    ELSE NoParse

\* JSON.parse of the texts considered here: null, a number, or an array of
\* objects with scalar members.  ok = FALSE is a SyntaxError.
ParseJSON(toks) ==
    IF toks = <<>> THEN NoParse
    ELSE IF toks = <<L("null")>> THEN [ok |-> TRUE, v |-> JNull, next |-> 2]
    ELSE IF Len(toks) = 1 /\ toks[1].k = "number"
         THEN [ok |-> TRUE, v |-> JNumber(toks[1].n), next |-> 2]
    ELSE IF ~ IsP(toks[1], "[") \/ Len(toks) < 2 THEN NoParse
    ELSE IF IsP(toks[2], "]")
         THEN IF Len(toks) = 2 THEN [ok |-> TRUE, v |-> JArray(<<>>), next |-> 3]
              ELSE NoParse
    ELSE LET r == ParseElements(toks, 2, <<>>) IN
         IF r.ok /\ r.next = Len(toks) + 1
         THEN [ok |-> TRUE, v |-> JArray(r.v), next |-> r.next]
         ELSE NoParse

\* The length of a JSON text in characters, as the storage quota counts it.
TokenWidth(tok) ==
    CASE tok.k = "punct"   -> 1
      [] tok.k = "string"  -> Len(tok.s) + 2
      [] tok.k = "number"  -> Len(NumberToString(tok.n))
      [] tok.k = "literal" -> IF tok.l = "false" THEN 5 ELSE 4

RECURSIVE TextLength(_)
TextLength(toks) ==
    IF toks = <<>> THEN 0 ELSE TokenWidth(Head(toks)) + TextLength(Tail(toks))

(* --------------------------- localStorage ------------------------------ *)

\* The item stored under STORAGE_KEY: none, or a text.
NoItem == [present |-> FALSE, text |-> <<>>]
Item(toks) == [present |-> TRUE, text |-> toks]


\* localStorage.getItem: null (here NoItem) when nothing is stored.
getItem(store) == store

\* localStorage.setItem under a quota of q characters: the whole value is
\* replaced, or a QuotaExceededError is thrown and the old value stays.
setItem(store, text, q) ==
    IF TextLength(text) > q THEN [ok |-> FALSE, storage |-> store]
    ELSE [ok |-> TRUE, storage |-> Item(text)]

\* A quota no list of the model comes near.
AmpleQuota == 64 * (MaxLen + 2)

(* ------------------------------- state --------------------------------- *)

VARIABLES
    storage,          \* the item under STORAGE_KEY in localStorage
    quota,            \* the characters localStorage accepts for the item
    clock,            \* what Date.now() returns
    pc,               \* "start" before DOMContentLoaded, then "ready" or "failed"
    listeners,        \* whether setupEventListeners has run
    opportunities,    \* the module variable opportunities
    currentFilter,    \* the module variable currentFilter
    titleInput,       \* titleInput.value
    availableList,    \* the cards of #available-list
    savedList,        \* the cards of #saved-list
    counterSpan,      \* counterSpan.textContent
    activeButtons,    \* the filter buttons carrying the class active
    errorMessageDiv,  \* textContent and style.display of #error-message
    lastOp            \* the last handler run: its input, outcome and pre-state

vars == << storage, quota, clock, pc, listeners, opportunities, currentFilter,
           titleInput, availableList, savedList, counterSpan, activeButtons,
           errorMessageDiv, lastOp >>

All == <<"all">>

View == [ availableList |-> availableList, savedList |-> savedList,
          counterSpan |-> counterSpan, activeButtons |-> activeButtons ]

\* What a handler finds when it starts: the list and the stored item.
Pre == [opportunities |-> opportunities, storage |-> storage]

NoCard == [ dataId |-> <<>>, title |-> <<>>, category |-> <<>>,
            buttonText |-> "", buttonClass |-> "" ]

NoOp == [ name |-> "none", input |-> <<>>, type |-> <<>>, id |-> 0, card |-> NoCard,
          threw |-> "none", wrote |-> FALSE, rendered |-> FALSE,
          pre |-> [opportunities |-> JArray(<<>>), storage |-> NoItem] ]

(* ------------------------------ rendering ------------------------------ *)

Matches(op, filter) == filter = All \/ op.category = filter

\* A filter that lets every record through.
FilteredAll(a, filter) == a

\* render, lines 87-90
FilteredOpportunities(a, filter) == SelectSeq(a, LAMBDA op : Matches(op, filter))

createOpportunityCard(op) ==
    [ dataId      |-> NumberToString(op.id),
      title       |-> escapeHTML(op.title),
      category    |-> escapeHTML(op.category),
      buttonText  |-> IF op.saved THEN "Remove" ELSE "Save",
      buttonClass |-> IF op.saved THEN "card-action-btn remove-btn"
                                  ELSE "card-action-btn save-btn" ]

\* render, lines 95-102: each card is appended to one of the two lists.
RECURSIVE PrependCards(_, _)
RECURSIVE AppendCards(_, _)
\* Cards put in front of the cards a region already holds.
PrependCards(filtered, lists) ==
    IF filtered = <<>> THEN lists
    ELSE LET op == Head(filtered)
             cardElement == createOpportunityCard(op)
         IN  PrependCards(Tail(filtered),
                 IF op.saved
                 THEN [lists EXCEPT !.savedList = <<cardElement>> \o @]
                 ELSE [lists EXCEPT !.availableList = <<cardElement>> \o @])

AppendCards(filtered, lists) ==
    IF filtered = <<>> THEN lists
    ELSE LET op == Head(filtered)
             cardElement == createOpportunityCard(op)
         IN  AppendCards(Tail(filtered),
                 IF op.saved
                 THEN [lists EXCEPT !.savedList = Append(@, cardElement)]
                 ELSE [lists EXCEPT !.availableList = Append(@, cardElement)])

CounterText(total, savedCount) ==
    NumberToString(total) \o <<" opportunities (">>
        \o NumberToString(savedCount) \o <<" saved)">>

\* A counter over the records the filter lets through.
CounterOfVisible(a, filter) ==
    LET v == FilteredOpportunities(a, filter) IN
    CounterText(Len(v), Len(SelectSeq(v, LAMBDA op : op.saved)))

\* updateCounter; the filter is not read.
updateCounter(a, filter) ==
    CounterText(Len(a), Len(SelectSeq(a, LAMBDA op : op.saved)))

updateActiveFilter(filter) == { btn \in FilterButtons : btn = filter }

\* A render that leaves the cards of both regions where they are.
renderKeepingCards(ops, filter, view) ==
    IF ~ IsArray(ops) THEN [threw |-> "TypeError", view |-> view]
    ELSE LET lists == AppendCards(FilteredOpportunities(ops.a, filter),
                                  [availableList |-> view.availableList,
                                   savedList |-> view.savedList])
         IN  [ threw |-> "none",
               view  |-> [ availableList |-> lists.availableList,
                           savedList     |-> lists.savedList,
                           counterSpan   |-> updateCounter(ops.a, filter),
                           activeButtons |-> updateActiveFilter(filter) ] ]

\* render: a TypeError at line 87 when opportunities is no array, before any
\* region is touched; otherwise all four regions are rebuilt.
render(ops, filter, view) ==
    IF ~ IsArray(ops) THEN [threw |-> "TypeError", view |-> view]
    ELSE LET lists == AppendCards(FilteredOpportunities(ops.a, filter),
                                  [availableList |-> <<>>, savedList |-> <<>>])
         IN  [ threw |-> "none",
               view  |-> [ availableList |-> lists.availableList,
                           savedList     |-> lists.savedList,
                           counterSpan   |-> updateCounter(ops.a, filter),
                           activeButtons |-> updateActiveFilter(filter) ] ]

SetView(v) ==
    /\ availableList' = v.availableList
    /\ savedList' = v.savedList
    /\ counterSpan' = v.counterSpan
    /\ activeButtons' = v.activeButtons

(* ----------------------------- persistence ----------------------------- *)

\* A save that writes nothing.
saveNothing(store, ops, q) == [ok |-> TRUE, storage |-> store]

saveToStorage(store, ops, q) == setItem(store, Stringify(ops), q)

\* loadFromStorage: an absent or empty item leaves opportunities alone.
loadFromStorage(store, ops) ==
    LET storedData == getItem(store) IN
    IF storedData.present /\ storedData.text # <<>>
    THEN LET parsed == ParseJSON(storedData.text) IN
         IF parsed.ok THEN [threw |-> "none", opportunities |-> parsed.v]
         ELSE [threw |-> "SyntaxError", opportunities |-> ops]
    ELSE [threw |-> "none", opportunities |-> ops]

\* saveAndRender: render is not reached when the write throws.
saveAndRender(store, ops, q, filter, view) ==
    LET w == saveToStorage(store, ops, q) IN
    IF ~ w.ok
    THEN [ threw |-> "QuotaExceededError", storage |-> store, view |-> view,
           wrote |-> FALSE, rendered |-> FALSE ]
    ELSE LET r == render(ops, filter, view) IN
         [ threw |-> r.threw, storage |-> w.storage, view |-> r.view,
           wrote |-> TRUE, rendered |-> r.threw = "none" ]


(* ------------------------------ handlers ------------------------------- *)

EmptyTitleMessage == <<"Opportunity title cannot be empty.">>

showError(message) == [textContent |-> message, display |-> "block"]

\* An error message that stays as it is.
keepError(div) == div

hideError(div) == [div EXCEPT !.display = "none"]

\* A new record that starts out saved.
newOpportunitySaved(now, title, type) ==
    [id |-> now, title |-> title, category |-> type, saved |-> TRUE]

\* handleAddOpportunity, lines 66-71
newOpportunity(now, title, type) ==
    [id |-> now, title |-> title, category |-> type, saved |-> FALSE]

\* A push that puts the record in front.
unshift(a, x) == <<x>> \o a

\* Array.prototype.push
push(a, x) == Append(a, x)

\* A lookup that falls back to the first record.
findOrFirst(a, id) ==
    IF \E i \in 1 .. Len(a) : a[i].id = id
    THEN CHOOSE i \in 1 .. Len(a) :
             a[i].id = id /\ \A j \in 1 .. (i - 1) : a[j].id # id
    ELSE IF a = <<>> THEN 0 ELSE 1

\* Array.prototype.find with op => op.id === id: the index of the first
\* record with that id, 0 when there is none.
find(a, id) ==
    IF \E i \in 1 .. Len(a) : a[i].id = id
    THEN CHOOSE i \in 1 .. Len(a) :
             a[i].id = id /\ \A j \in 1 .. (i - 1) : a[j].id # id
    ELSE 0

Ran(name, input, type, id, card, threw, wrote, rendered) ==
    [ name |-> name, input |-> input, type |-> type, id |-> id, card |-> card,
      threw |-> threw, wrote |-> wrote, rendered |-> rendered,
      pre |-> Pre ]

\* init, on DOMContentLoaded; lastOp keeps the filter the session before
\* ended with.  A SyntaxError in loadFromStorage ends it before
\* the listeners are installed, a TypeError in render after.
DOMContentLoaded ==
    /\ pc = "start"
    /\ LET loaded == loadFromStorage(storage, opportunities)
           r == render(loaded.opportunities, currentFilter, View)
       IN  IF loaded.threw # "none"
           THEN /\ pc' = "failed"
                /\ lastOp' = Ran("init", lastOp.input, <<>>, 0, NoCard,
                                 loaded.threw, FALSE, FALSE)
                /\ UNCHANGED << listeners, opportunities, availableList, savedList,
                                counterSpan, activeButtons >>
           ELSE /\ opportunities' = loaded.opportunities
                /\ listeners' = TRUE
                /\ SetView(r.view)
                /\ pc' = IF r.threw = "none" THEN "ready" ELSE "failed"
                /\ lastOp' = Ran("init", lastOp.input, <<>>, 0, NoCard,
                                 r.threw, FALSE, r.threw = "none")
    /\ UNCHANGED << storage, quota, clock, currentFilter, titleInput, errorMessageDiv >>

\* handleAddOpportunity, with value typed into the title input and type
\* chosen in the selector.
HandleAddOpportunity(value, type) ==
    /\ listeners
    /\ LET title == Trim(value) IN
       IF title = <<>>
       THEN /\ errorMessageDiv' = showError(EmptyTitleMessage)
            /\ titleInput' = value
            /\ lastOp' = Ran("add", value, type, 0, NoCard, "none", FALSE, FALSE)
            /\ UNCHANGED << storage, opportunities, availableList, savedList,
                            counterSpan, activeButtons >>
       ELSE IF ~ IsArray(opportunities)
       THEN \* opportunities.push is not a function
            /\ errorMessageDiv' = hideError(errorMessageDiv)
            /\ titleInput' = value
            /\ lastOp' = Ran("add", value, type, 0, NoCard, "TypeError",
                             FALSE, FALSE)
            /\ UNCHANGED << storage, opportunities, availableList, savedList,
                            counterSpan, activeButtons >>
       ELSE /\ Len(opportunities.a) < MaxLen
            /\ LET pushed == JArray(push(opportunities.a,
                                         newOpportunity(clock, title, type)))
                   r == saveAndRender(storage, pushed, quota, currentFilter, View)
               IN  /\ errorMessageDiv' = hideError(errorMessageDiv)
                   /\ opportunities' = pushed
                   /\ titleInput' = <<>>
                   /\ storage' = r.storage
                   /\ SetView(r.view)
                   /\ lastOp' = Ran("add", value, type, 0, NoCard, r.threw,
                                    r.wrote, r.rendered)
    /\ UNCHANGED << quota, clock, pc, listeners, currentFilter >>

\* toggleSavedStatus(id); card is the card whose button was clicked, NoCard
\* when the function is called with an id directly.
toggleSavedStatus(id, card) ==
    /\ IF ~ IsArray(opportunities)
       THEN \* opportunities.find is not a function
            /\ lastOp' = Ran("toggle", <<>>, <<>>, id, card, "TypeError",
                             FALSE, FALSE)
            /\ UNCHANGED << storage, opportunities, availableList, savedList,
                            counterSpan, activeButtons >>
       ELSE LET i == find(opportunities.a, id) IN
            IF i = 0
            THEN /\ lastOp' = Ran("toggle", <<>>, <<>>, id, card, "none",
                                  FALSE, FALSE)
                 /\ UNCHANGED << storage, opportunities, availableList, savedList,
                                 counterSpan, activeButtons >>
            ELSE LET flipped == JArray([opportunities.a EXCEPT ![i].saved = ~ @])
                     r == saveAndRender(storage, flipped, quota, currentFilter, View)
                 IN  /\ opportunities' = flipped
                     /\ storage' = r.storage
                     /\ SetView(r.view)
                     /\ lastOp' = Ran("toggle", <<>>, <<>>, id, card, r.threw,
                                      r.wrote, r.rendered)
    /\ UNCHANGED << quota, clock, pc, listeners, currentFilter, titleInput,
                    errorMessageDiv >>

\* toggleSavedStatus called with any integer id.
ToggleSaved(id) ==
    /\ pc # "start"
    /\ toggleSavedStatus(id, NoCard)

\* The delegated click handler of mainContent, lines 38-45, for a click on the
\* action button of a rendered card.
CardActionClick(card) ==
    /\ listeners
    /\ toggleSavedStatus(parseInt(card.dataId), card)

Seen(list) == { list[i] : i \in 1 .. Len(list) }

\* A filter click that goes through saveAndRender.
FilterClickSaving(filter) ==
    /\ listeners
    /\ LET r == saveAndRender(storage, opportunities, quota, filter, View) IN
       /\ currentFilter' = filter
       /\ storage' = r.storage
       /\ SetView(r.view)
       /\ lastOp' = Ran("filter", filter, <<>>, 0, NoCard, r.threw, r.wrote,
                        r.rendered)
    /\ UNCHANGED << quota, clock, pc, listeners, opportunities, titleInput,
                    errorMessageDiv >>

\* The click handler of filterContainer, lines 47-53, for a click on the
\* button whose data-filter is filter.
FilterClick(filter) ==
    /\ listeners
    /\ LET r == render(opportunities, filter, View) IN
       /\ currentFilter' = filter
       /\ SetView(r.view)
       /\ lastOp' = Ran("filter", filter, <<>>, 0, NoCard, r.threw, FALSE,
                        r.threw = "none")
    /\ UNCHANGED << storage, quota, clock, pc, listeners, opportunities, titleInput,
                    errorMessageDiv >>

\* render called on its own.
Render ==
    /\ pc # "start"
    /\ LET r == render(opportunities, currentFilter, View) IN
       /\ SetView(r.view)
       /\ lastOp' = Ran("render", <<>>, <<>>, 0, NoCard, r.threw, FALSE,
                        r.threw = "none")
    /\ UNCHANGED << storage, quota, clock, pc, listeners, opportunities,
                    currentFilter, titleInput, errorMessageDiv >>

\* A millisecond passes.
Tick ==
    /\ clock < MaxClock
    /\ clock' = clock + 1
    /\ UNCHANGED << storage, quota, pc, listeners, opportunities, currentFilter,
                    titleInput, availableList, savedList, counterSpan,
                    activeButtons, errorMessageDiv, lastOp >>

\* The filter buttons the markup may mark active before any render.
MarkupActive == { {}, {All} }

\* The page as the script finds it, lines 13-14 and the markup.
FreshPage ==
    /\ pc = "start"
    /\ listeners = FALSE
    /\ opportunities = JArray(<<>>)
    /\ currentFilter = All
    /\ titleInput = <<>>
    /\ availableList = <<>>
    /\ savedList = <<>>
    /\ counterSpan = <<>>
    /\ activeButtons \in MarkupActive
    /\ errorMessageDiv = [textContent |-> <<>>, display |-> ""]
    /\ lastOp = NoOp

\* A reload that brings the filter of the session before back.
ReloadKeepingFilter ==
    /\ pc # "start"
    /\ clock < MaxClock
    /\ clock' = clock + 1
    /\ pc' = "start"
    /\ listeners' = FALSE
    /\ opportunities' = JArray(<<>>)
    /\ titleInput' = <<>>
    /\ availableList' = <<>>
    /\ savedList' = <<>>
    /\ counterSpan' = <<>>
    /\ activeButtons' \in MarkupActive
    /\ errorMessageDiv' = [textContent |-> <<>>, display |-> ""]
    /\ lastOp' = Ran("reload", currentFilter, <<>>, 0, NoCard, "none", FALSE, FALSE)
    /\ UNCHANGED << storage, quota, currentFilter >>

\* The page is loaded again, later: the script starts over, storage stays.
\* lastOp keeps the list, the stored item and the filter the session ended
\* with.
Reload ==
    /\ pc # "start"
    /\ clock < MaxClock
    /\ clock' = clock + 1
    /\ pc' = "start"
    /\ listeners' = FALSE
    /\ opportunities' = JArray(<<>>)
    /\ currentFilter' = All
    /\ titleInput' = <<>>
    /\ availableList' = <<>>
    /\ savedList' = <<>>
    /\ counterSpan' = <<>>
    /\ activeButtons' \in MarkupActive
    /\ errorMessageDiv' = [textContent |-> <<>>, display |-> ""]
    /\ lastOp' = Ran("reload", currentFilter, <<>>, 0, NoCard, "none", FALSE, FALSE)
    /\ UNCHANGED << storage, quota >>

\* A record left by an earlier session.
StoredRecord ==
    [id |-> 0, title |-> <<"a">>, category |-> <<"Scholarship">>, saved |-> TRUE]

\* What the first session may find under STORAGE_KEY: nothing, an empty
\* string, a truncated text, null, a number, or a list.
InitialItems ==
    { NoItem, Item(<<>>),
      Item(SubSeq(Stringify(JArray(<<StoredRecord>>)), 1, 4)),
      Item(<<L("null")>>), Item(<<N(5)>>),
      Item(Stringify(JArray(<<>>))), Item(Stringify(JArray(<<StoredRecord>>))) }

InitWith(quotas) ==
    /\ storage \in InitialItems
    /\ quota \in quotas
    /\ clock = 1
    /\ FreshPage

Init == InitWith({AmpleQuota})

Next ==
    \/ DOMContentLoaded
    \/ \E value \in TitleInputs, type \in Categories : HandleAddOpportunity(value, type)
    \/ \E id \in Ids : ToggleSaved(id)
    \/ \E card \in Seen(availableList) \cup Seen(savedList) : CardActionClick(card)
    \/ \E filter \in FilterButtons : FilterClick(filter)
    \/ Render
    \/ Tick
    \/ Reload

Spec == Init /\ [][Next]_vars

\* A quota that the stored record's list just fits: a longer text, such as
\* the same list with saved written as false or with one more record, is
\* refused.
TightQuota == TextLength(Stringify(JArray(<<StoredRecord>>)))

\* The first session on such a storage finds the stored record.
InitQuota ==
    /\ storage = Item(Stringify(JArray(<<StoredRecord>>)))
    /\ quota = TightQuota
    /\ clock = 1
    /\ FreshPage

\* The application on a storage that is nearly full.
SpecQuota == InitQuota /\ [][Next]_vars


(* ------------------------- vocabulary of the claims -------------------- *)

\* The list, where opportunities holds one.
List == opportunities.a

\* The list the last handler found.
ListBefore == lastOp.pre.opportunities.a

AllWhitespace(s) == \A i \in 1 .. Len(s) : s[i] \in Whitespace

\* t is s without the whitespace around it.
IsTrimOf(t, s) ==
    \E i \in 0 .. Len(s) :
        /\ i + Len(t) <= Len(s)
        /\ SubSeq(s, i + 1, i + Len(t)) = t
        /\ \A k \in 1 .. i : s[k] \in Whitespace
        /\ \A k \in (i + Len(t) + 1) .. Len(s) : s[k] \in Whitespace
        /\ t # <<>> => t[1] \notin Whitespace /\ t[Len(t)] \notin Whitespace

\* The records of a that a filter shows, saved or not, in list order.
Shown(a, filter, saved) ==
    SelectSeq(a, LAMBDA op : (filter = All \/ op.category = filter) /\ op.saved = saved)

Cards(a) == [i \in 1 .. Len(a) |-> createOpportunityCard(a[i])]

NumberSaved(a) == Cardinality({ i \in 1 .. Len(a) : a[i].saved })

\* What load() yields from the stored item, starting from the empty list.
Loaded == loadFromStorage(storage, JArray(<<>>))

Persisted == Loaded.threw = "none" /\ Loaded.opportunities = opportunities

Projected ==
    /\ availableList = Cards(Shown(List, currentFilter, FALSE))
    /\ savedList = Cards(Shown(List, currentFilter, TRUE))

\* The stored item is absent or empty, or does not parse as a list.
NoStoredList(item) ==
    \/ ~ item.present
    \/ item.text = <<>>
    \/ ~ ParseJSON(item.text).ok
    \/ ~ IsArray(ParseJSON(item.text).v)

(* ------------------------------- claims -------------------------------- *)

\* C1: once init has completed, after every add, toggleSaved and setFilter
\* the list that load() returns from storage is the in-memory list: same
\* records, same order, same field values.
C1_SnapshotEqualsList == pc = "ready" => Persisted

C1_Witness ==
    /\ pc = "ready" /\ lastOp.name = "toggle" /\ lastOp.wrote
    /\ Len(List) = 2 /\ List[2].saved /\ ~ List[1].saved
    /\ storage.present

\* C2: once init has completed, the available region holds the cards of the
\* not-saved records the filter lets through, in list order, the saved region
\* those of the saved ones, and the counter the totals of the whole list.
C2_ViewIsProjection ==
    pc = "ready" =>
        /\ Projected
        /\ counterSpan = CounterText(Len(List), NumberSaved(List))

\* Two adds, a toggle of the first and the filter set to its category: the
\* saved region shows the first record alone, the available region is empty.
C2_Witness ==
    /\ pc = "ready" /\ lastOp.name = "filter"
    /\ Len(List) = 2
    /\ List[1].category = <<"Scholarship">> /\ List[1].saved
    /\ List[2].category = <<"Internship">> /\ ~ List[2].saved
    /\ currentFilter = <<"Scholarship">>
    /\ Len(savedList) = 1 /\ savedList[1].title = escapeHTML(List[1].title)
    /\ availableList = <<>>
    /\ counterSpan = <<"2", " opportunities (", "1", " saved)">>

\* C3: no two records of the list have the same id.
C3_IdsUnique ==
    IsArray(opportunities) =>
        \A i, j \in 1 .. Len(List) : i # j => List[i].id # List[j].id

\* C4: when the stored item is absent or does not parse as a list, init ends
\* without an exception, with the empty list, the handlers installed and the
\* view rendered.
C4_InitSurvivesBadStorage ==
    (lastOp.name = "init" /\ NoStoredList(lastOp.pre.storage)) =>
        /\ lastOp.threw = "none"
        /\ opportunities = JArray(<<>>)
        /\ listeners
        /\ lastOp.rendered
        /\ pc = "ready"

\* C5: an add whose title is empty or whitespace only changes neither the
\* list nor the stored item nor the rendered lists and counter, writes
\* nothing, renders nothing, and leaves the error message visible.
C5_EmptyTitleRejected ==
    [][ (lastOp'.name = "add" /\ AllWhitespace(lastOp'.input)) =>
            /\ UNCHANGED << opportunities, storage, availableList, savedList,
                            counterSpan, activeButtons >>
            /\ ~ lastOp'.wrote /\ ~ lastOp'.rendered /\ lastOp'.threw = "none"
            /\ errorMessageDiv'.display = "block"
            /\ errorMessageDiv'.textContent # <<>> ]_vars

C5_Witness ==
    /\ lastOp.name = "add" /\ lastOp.input = <<" ", "\t">>
    /\ errorMessageDiv.display = "block"
    /\ pc = "ready" /\ Len(List) = 1

\* C6: an add with a title that is not blank appends one record, with the
\* trimmed title, the chosen category and saved = FALSE, keeps every earlier
\* record in place and unchanged, persists the list, renders it and hides
\* the error message.
C6_AddAppendsOne ==
    (lastOp.name = "add" /\ ~ AllWhitespace(lastOp.input)
                         /\ IsArray(lastOp.pre.opportunities)) =>
        /\ IsArray(opportunities)
        /\ Len(List) = Len(ListBefore) + 1
        /\ \A i \in 1 .. Len(ListBefore) : List[i] = ListBefore[i]
        /\ IsTrimOf(List[Len(List)].title, lastOp.input)
        /\ List[Len(List)].category = lastOp.type
        /\ List[Len(List)].saved = FALSE
        /\ lastOp.wrote /\ Persisted
        /\ lastOp.rendered /\ Projected
        /\ errorMessageDiv.display = "none"

C6_Witness ==
    /\ pc = "ready"
    /\ lastOp.name = "add" /\ lastOp.input = <<" ", "<", " ", "b", "\t">>
    /\ Len(ListBefore) = 1 /\ ListBefore[1].saved
    /\ Len(List) = 2 /\ List[2].title = <<"<", " ", "b">>
    /\ errorMessageDiv.textContent # <<>>


\* The last handler was a toggleSavedStatus(id) that found the list holding a
\* record with that id.
ToggledPresent(op) ==
    /\ op.name = "toggle"
    /\ IsArray(op.pre.opportunities)
    /\ \E i \in 1 .. Len(op.pre.opportunities.a) : op.pre.opportunities.a[i].id = op.id

C7_FlipsThatRecord ==
    ToggledPresent(lastOp) =>
        /\ IsArray(opportunities)
        /\ Len(List) = Len(ListBefore)
        /\ \A i \in 1 .. Len(ListBefore) :
               List[i] = IF ListBefore[i].id = lastOp.id
                         THEN [ListBefore[i] EXCEPT !.saved = ~ @]
                         ELSE ListBefore[i]
        /\ lastOp.wrote /\ Persisted
        /\ lastOp.rendered /\ Projected

C7_TwiceRestores ==
    (ToggledPresent(lastOp) /\ lastOp'.name = "toggle" /\ lastOp'.id = lastOp.id
                            /\ lastOp' # lastOp) =>
        /\ opportunities' = lastOp.pre.opportunities
        /\ storage' = lastOp.pre.storage

\* C7: toggleSaved(id) for an id in the list flips the saved flag of the
\* record with that id and of no other record, persists and renders; a
\* second toggleSaved(id) right after restores the list and the stored item.
C7_ToggleFlipsAndRestores == [](C7_FlipsThatRecord) /\ [][C7_TwiceRestores]_vars


\* The step runs toggleSavedStatus(id) on a list in which no record has
\* that id.
ToggleMissStep ==
    /\ lastOp'.name = "toggle" /\ lastOp' # lastOp
    /\ IsArray(opportunities)
    /\ \A i \in 1 .. Len(List) : List[i].id # lastOp'.id

\* C8: toggleSaved(id) for an id no record has changes neither the list, the
\* stored item, the rendered view, the filter nor the error message, raises
\* nothing and writes nothing.
C8_ToggleMissIsNoOp ==
    [][ ToggleMissStep =>
            /\ UNCHANGED << opportunities, storage, availableList, savedList,
                            counterSpan, activeButtons, currentFilter,
                            errorMessageDiv >>
            /\ lastOp'.threw = "none"
            /\ ~ lastOp'.wrote ]_vars

C8_Witness ==
    /\ pc = "ready" /\ lastOp.name = "toggle" /\ lastOp.threw = "none"
    /\ Len(List) = 2
    /\ \A i \in 1 .. Len(List) : List[i].id # lastOp.id
    /\ lastOp.pre.opportunities = opportunities
    /\ \E i \in 1 .. Len(List) : List[i].saved

\* C9: within a session no record is removed or moved, no id, title or
\* category changes, and a saved flag changes only in a toggleSaved.
C9_RecordsStay ==
    [][ (pc' = pc /\ IsArray(opportunities)) =>
            /\ IsArray(opportunities')
            /\ Len(opportunities'.a) >= Len(List)
            /\ \A i \in 1 .. Len(List) :
                   /\ opportunities'.a[i].id = List[i].id
                   /\ opportunities'.a[i].title = List[i].title
                   /\ opportunities'.a[i].category = List[i].category
                   /\ opportunities'.a[i].saved # List[i].saved =>
                          lastOp'.name = "toggle" /\ lastOp' # lastOp ]_vars

\* A toggle on a list of two records with different titles and categories,
\* under a category filter: only the saved flag of one record has changed.
C9_Witness ==
    /\ pc = "ready" /\ lastOp.name = "toggle"
    /\ Len(List) = 2 /\ Len(ListBefore) = 2
    /\ List[1] = ListBefore[1]
    /\ List[2].saved /\ ~ ListBefore[2].saved
    /\ List[1].category # List[2].category
    /\ List[1].title # List[2].title
    /\ currentFilter # All

\* C10: once init has completed the counter shows the length of the whole
\* list and the number of its saved records, whatever the filter.
C10_CounterOverWholeList ==
    pc = "ready" => counterSpan = CounterText(Len(List), NumberSaved(List))

\* The filter hides a saved record, which the counter still counts.
C10_Witness ==
    /\ pc = "ready" /\ currentFilter = <<"Internship">>
    /\ Len(List) = 2
    /\ List[1].category = <<"Scholarship">> /\ List[1].saved
    /\ List[2].category = <<"Scholarship">> /\ ~ List[2].saved
    /\ availableList = <<>> /\ savedList = <<>>
    /\ counterSpan = <<"2", " opportunities (", "1", " saved)">>

\* The positions of a whose record the filter lets through.
Visible(a, filter) ==
    { i \in 1 .. Len(a) : filter = All \/ a[i].category = filter }

\* The cards of the records of a at the positions in I, by increasing position.
CardsAt(a, I) ==
    LET order == CHOOSE f \in [1 .. Cardinality(I) -> I] :
                     \A j, k \in 1 .. Cardinality(I) : j < k => f[j] < f[k]
    IN  [k \in 1 .. Cardinality(I) |-> createOpportunityCard(a[order[k]])]

\* C11: once init has completed, for the list and the filter of the state,
\* the two regions show two disjoint sets of positions of the list whose
\* union is the set of positions matching the filter, the available region
\* the unsaved and the saved region the saved ones, each region in the order
\* of the list; no card is in both regions.
C11_RegionsPartitionVisible ==
    pc = "ready" =>
        /\ Visible(List, currentFilter) \subseteq 1 .. Len(List)
        /\ \E I \in SUBSET Visible(List, currentFilter) :
           \E J \in SUBSET Visible(List, currentFilter) :
              /\ I \cap J = {}
              /\ I \cup J = Visible(List, currentFilter)
              /\ \A i \in I : ~ List[i].saved
              /\ \A j \in J : List[j].saved
              /\ availableList = CardsAt(List, I)
              /\ savedList = CardsAt(List, J)
        /\ Seen(availableList) \cap Seen(savedList) = {}

\* Under a category filter one region shows two different cards.
C11_Witness ==
    /\ pc = "ready"
    /\ currentFilter # All
    /\ Len(List) = 2
    /\ Len(savedList) = 2
    /\ savedList[1] # savedList[2]
    /\ availableList = <<>>

\* C12: a click on a filter button makes that button's filter the current
\* one and changes nothing but the rendered regions: the list, the stored
\* item, the title field and the error message stay as they were and nothing
\* is written; on a list the regions, the counter and the active button are
\* those of the list under the new filter.
C12_FilterOnlyRerenders ==
    [][ (lastOp'.name = "filter" /\ clock' = clock /\ pc' = pc) =>
            /\ currentFilter' = lastOp'.input
            /\ opportunities' = opportunities
            /\ storage' = storage
            /\ errorMessageDiv' = errorMessageDiv
            /\ titleInput' = titleInput
            /\ ~ lastOp'.wrote
            /\ IsArray(opportunities) =>
                  /\ lastOp'.rendered
                  /\ availableList' = Cards(Shown(List, lastOp'.input, FALSE))
                  /\ savedList' = Cards(Shown(List, lastOp'.input, TRUE))
                  /\ activeButtons' = { lastOp'.input } ]_vars

\* A category filter was clicked while the error message was shown and a
\* record was in the list and in storage.
C12_Witness ==
    /\ pc = "ready"
    /\ lastOp.name = "filter"
    /\ lastOp.input = <<"Internship">>
    /\ currentFilter = <<"Internship">>
    /\ List # <<>>
    /\ storage.present
    /\ errorMessageDiv.display = "block"

\* Records as handleAddOpportunity builds them and toggleSavedStatus leaves
\* them, and the lists of at most MaxLen of them.
WellFormedRecords ==
    [ id : Ids, title : { <<"a">>, <<"<", " ", "b">> }, category : Categories,
      saved : BOOLEAN ]

WellFormedLists ==
    UNION { [1 .. n -> WellFormedRecords] : n \in 0 .. MaxLen }

\* Loading what saving the list v stored gives v.
RoundTrip(v) ==
    LET written == saveToStorage(NoItem, v, AmpleQuota) IN
    /\ written.ok
    /\ loadFromStorage(written.storage, JArray(<<>>))
           = [threw |-> "none", opportunities |-> v]

C13_SaveThenLoad ==
    /\ lastOp.name = "none" => \A a \in WellFormedLists : RoundTrip(JArray(a))
    /\ pc = "ready" => RoundTrip(opportunities)

\* The list a session ended with is the list the init of the next one loads.
C13_NextSessionResumes ==
    (lastOp.name = "reload" /\ lastOp'.name = "init") =>
        opportunities' = lastOp.pre.opportunities

\* C13: loading what saving a well-formed list stored gives that list, same
\* order, fields and values; and the init of a session leaves in memory the
\* list the session before it ended with.
C13_RoundTrip == [](C13_SaveThenLoad) /\ [][C13_NextSessionResumes]_vars

\* init has just loaded two records, the second created and saved in a
\* session before.
C13_Witness ==
    /\ pc = "ready"
    /\ lastOp.name = "init"
    /\ clock > 1
    /\ Len(List) = 2
    /\ List[2].id = 1
    /\ List[2].saved
    /\ ~ List[1].saved

\* The strings of the stored text.
StoredStrings ==
    { storage.text[i].s : i \in { j \in 1 .. Len(storage.text) :
                                      storage.text[j].k = "string" } }

\* The strings a list is written with: the four keys and the titles and
\* categories of its records.
StringsOf(a) ==
    { <<"id">>, <<"title">>, <<"category">>, <<"saved">> }
        \cup { a[i].title : i \in 1 .. Len(a) }
        \cup { a[i].category : i \in 1 .. Len(a) }

C14_FilterNotStored ==
    /\ pc = "start" => currentFilter = All
    /\ lastOp.name = "init" => currentFilter = All
    /\ (pc = "ready" /\ storage.present) =>
           /\ StoredStrings \subseteq StringsOf(List)
           /\ All \notin StoredStrings

\* A step that changes the filter leaves storage alone.
C14_FilterChangeWritesNothing ==
    currentFilter' # currentFilter => storage' = storage

\* C14: the filter is not persisted: a page load starts with 'all' and init
\* leaves it 'all', whatever filter the session before ended with; the
\* stored text holds nothing but the list, so no string of it is a filter
\* value unless it is a record's category; a change of filter writes nothing.
C14_FilterTransient ==
    [](C14_FilterNotStored) /\ [][C14_FilterChangeWritesNothing]_vars

\* init has run on a stored Scholarship record after a session that ended
\* under the Internship filter.
C14_Witness ==
    /\ pc = "ready"
    /\ lastOp.name = "init"
    /\ lastOp.input = <<"Internship">>
    /\ currentFilter = All
    /\ storage.present
    /\ List # <<>>
    /\ \A i \in 1 .. Len(List) : List[i].category = <<"Scholarship">>

ErrorVisible == errorMessageDiv.display = "block"

\* The message is hidden when the page has loaded and when init has run, and
\* after an add it is visible exactly when the title was empty or blank.
C15_VisibleAfterRejectedAdd ==
    /\ pc = "start" => ~ ErrorVisible
    /\ lastOp.name = "init" => ~ ErrorVisible
    /\ lastOp.name = "add" =>
           /\ ErrorVisible <=> AllWhitespace(lastOp.input)
           /\ ErrorVisible => errorMessageDiv.textContent = EmptyTitleMessage

\* Only an add and a page load change the message.
C15_OthersLeaveError ==
    (lastOp'.name \notin {"add", "reload"} \/ (clock' # clock /\ pc' = pc)) =>
        errorMessageDiv' = errorMessageDiv

\* C15: the error message is hidden after init, visible after an add with an
\* empty or blank title and hidden after an add with a title; toggleSaved,
\* a filter click and render leave it as it is, so it is visible only when
\* the last add of the session was rejected.
C15_ErrorLifecycle ==
    [](C15_VisibleAfterRejectedAdd) /\ [][C15_OthersLeaveError]_vars

\* The message was shown, hidden again by an add with a title, and a toggle
\* since has left it hidden.
C15_Witness ==
    /\ pc = "ready"
    /\ lastOp.name = "toggle"
    /\ errorMessageDiv.display = "none"
    /\ errorMessageDiv.textContent = EmptyTitleMessage

\* What the four regions show of a list under a filter.
Rendering(a, filter) ==
    [ availableList |-> Cards(Shown(a, filter, FALSE)),
      savedList     |-> Cards(Shown(a, filter, TRUE)),
      counterSpan   |-> CounterText(Len(a), NumberSaved(a)),
      activeButtons |-> { filter } ]

\* C16: a call of render leaves the list, the filter and the stored item as
\* they are; on a list it leaves the four regions as the list and the filter
\* alone determine them, whatever they showed before; and a second call
\* right after the first changes no region.
C16_RenderIdempotent ==
    [][ (lastOp'.name = "render" /\ clock' = clock) =>
            /\ opportunities' = opportunities
            /\ currentFilter' = currentFilter
            /\ storage' = storage
            /\ IsArray(opportunities) => View' = Rendering(List, currentFilter)
            /\ lastOp.name = "render" => View' = View ]_vars

\* render has shown a list whose last change was not stored.
C16_Witness ==
    /\ pc = "ready"
    /\ lastOp.name = "render"
    /\ lastOp.rendered
    /\ View = Rendering(List, currentFilter)
    /\ ~ Persisted
    /\ Len(List) = 2

\* C17: once init has completed, the id on every rendered card is the id of
\* a record of the list, and a click on a card's action button flips the
\* saved flag of the record that card shows and changes no other record.
C17_ClickTogglesShownRecord ==
    pc = "ready" =>
        /\ \A card \in Seen(availableList) \cup Seen(savedList) :
               \E i \in 1 .. Len(List) : List[i].id = parseInt(card.dataId)
        /\ (lastOp.name = "toggle" /\ lastOp.card # NoCard) =>
               \E i \in 1 .. Len(ListBefore) :
                   /\ createOpportunityCard(ListBefore[i]) = lastOp.card
                   /\ List = [ListBefore EXCEPT ![i].saved = ~ @]

\* The last handler changed the list and its write to storage failed.
WriteFailed ==
    /\ lastOp.name \in {"add", "toggle"}
    /\ opportunities # lastOp.pre.opportunities
    /\ ~ lastOp.wrote

\* C18: when the write of an add or of a toggleSaved fails, the handler
\* raises nothing and the regions show the list as the handler left it, so
\* the list holds no change that is neither rendered nor stored.
C18_WriteFailureConsistent ==
    (pc = "ready" /\ WriteFailed) =>
        /\ lastOp.threw = "none"
        /\ View = Rendering(List, currentFilter)
        /\ Projected \/ Persisted

=========================================================================
